---- MODULE Spec2Model ----
(***************************************************************************)
(* A model of testperanto's morphology.py: the Morpher base class, the     *)
(* SuffixMorpher and PrefixMorpher rule-table morphers, and the example    *)
(* morphers (English verb, English noun, Japanese verb).                   *)
(*                                                                         *)
(* Python objects live in three heaps (morpher instances, property-name    *)
(* sequences, rule-table dicts); an instance field holds a reference (an   *)
(* id), as `self.suffix_map = suffix_map` stores one.  Every caller runs   *)
(* morph one source line at a time on its own call stack, so calls of      *)
(* several callers on the shared instance interleave line by line.         *)
(***************************************************************************)
EXTENDS Integers, Sequences, FiniteSets, TLC

VARIABLES
    objs,      \* heap of morpher instances: id -> fields
    tuples,    \* heap of property-name sequences: id -> sequence of names
    dicts,     \* heap of rule-table dicts: id -> mapping tuple -> affix
    shared,    \* id of the instance the callers share
    status,    \* per caller: "idle", "running" or "done"
    stem,      \* per caller: the word passed to morph
    props,     \* per caller: the caller's property dict object
    props0,    \* per caller: the content of that dict when morph was called
    stack,     \* per caller: the call stack, innermost frame first
    log,       \* per caller: the sub-morpher calls made, in order
    result,    \* per caller: what morph returned or raised
    overlap,   \* per caller: the call ran a line while another call was running
    writes     \* number of writes the owner of a constructor argument made

vars == <<objs, tuples, dicts, shared, status, stem, props, props0, stack,
          log, result, overlap, writes>>

-----------------------------------------------------------------------------
(* Bounds of the model *)

\* number of stems of StemList the callers draw from
NumStems == 2

\* number of writes a caller makes to the dict it passed to a constructor
MaxWrites == 1

StemList == <<"walk", "", "tabe", "cat", "rot">>

Stems == {StemList[i] : i \in 1..NumStems}

Callers == {"c1", "c2"}

\* a property value no rule table of the repository knows
UnknownValue == "unk"

\* a property name no morpher of the repository reads
ExtraName == "MOOD"

\* affixes the owner of a rule-table dict may write into it
WrittenAffixes == {"x"}

-----------------------------------------------------------------------------
(* Python values *)

\* a str returned by morph
Str(s) == [tag |-> "str", val |-> s]

\* the value of a function whose body ends without a return statement
None == [tag |-> "None"]

\* KeyError raised by properties[p] for an absent property name p
KeyErrorName(p) == [tag |-> "KeyError", name |-> p, key |-> <<>>]

\* KeyError raised by the rule table for an absent value tuple
KeyErrorTuple(k) == [tag |-> "KeyError", name |-> "", key |-> k]

Ok(v) == [tag |-> "ok", val |-> v]

Range(s) == {s[i] : i \in 1..Len(s)}

-----------------------------------------------------------------------------
(* The literal rule tables of the source *)

GermanPropertyNames == <<"GENDER", "CASE">>

GermanSuffixMap ==
    (<<"m", "acc">> :> "en") @@ (<<"f", "acc">> :> "e") @@
    (<<"n", "acc">> :> "es") @@ (<<"m", "dat">> :> "em") @@
    (<<"f", "dat">> :> "er") @@ (<<"n", "dat">> :> "em")

EnglishVerbPropertyNames == <<"PERSON", "COUNT", "TENSE", "POLARITY">>

EnglishSuffixMapBadNeg ==
    (<<"1", "sng", "present", "pos">> :> "")  @@
    (<<"1", "plu", "present", "pos">> :> "")  @@
    (<<"1", "sng", "perfect", "pos">> :> "d") @@
    (<<"1", "plu", "perfect", "pos">> :> "d") @@
    (<<"3", "sng", "present", "pos">> :> "s") @@
    (<<"3", "plu", "present", "pos">> :> "")  @@
    (<<"3", "sng", "perfect", "pos">> :> "d") @@
    (<<"3", "plu", "perfect", "pos">> :> "d") @@
    (<<"1", "sng", "present", "neg">> :> "")  @@
    (<<"1", "plu", "present", "neg">> :> "")  @@
    (<<"1", "sng", "perfect", "neg">> :> "d") @@
    (<<"1", "plu", "perfect", "neg">> :> "d") @@
    (<<"3", "sng", "present", "neg">> :> "s") @@
    (<<"3", "plu", "present", "neg">> :> "")  @@
    (<<"3", "sng", "perfect", "neg">> :> "d") @@
    (<<"3", "plu", "perfect", "neg">> :> "d")

EnglishSuffixMap ==
    (<<"1", "sng", "present", "pos">> :> "")  @@
    (<<"1", "plu", "present", "pos">> :> "")  @@
    (<<"1", "sng", "perfect", "pos">> :> "d") @@
    (<<"1", "plu", "perfect", "pos">> :> "d") @@
    (<<"3", "sng", "present", "pos">> :> "s") @@
    (<<"3", "plu", "present", "pos">> :> "")  @@
    (<<"3", "sng", "perfect", "pos">> :> "d") @@
    (<<"3", "plu", "perfect", "pos">> :> "d") @@
    (<<"1", "sng", "present", "neg">> :> "")  @@
    (<<"1", "plu", "present", "neg">> :> "")  @@
    (<<"1", "sng", "perfect", "neg">> :> "")  @@
    (<<"1", "plu", "perfect", "neg">> :> "")  @@
    (<<"3", "sng", "present", "neg">> :> "")  @@
    (<<"3", "plu", "present", "neg">> :> "")  @@
    (<<"3", "sng", "perfect", "neg">> :> "")  @@
    (<<"3", "plu", "perfect", "neg">> :> "")

EnglishPrefixMap ==
    (<<"1", "sng", "present", "pos">> :> "") @@
    (<<"1", "plu", "present", "pos">> :> "") @@
    (<<"1", "sng", "perfect", "pos">> :> "") @@
    (<<"1", "plu", "perfect", "pos">> :> "") @@
    (<<"3", "sng", "present", "pos">> :> "") @@
    (<<"3", "plu", "present", "pos">> :> "") @@
    (<<"3", "sng", "perfect", "pos">> :> "") @@
    (<<"3", "plu", "perfect", "pos">> :> "") @@
    (<<"1", "sng", "present", "neg">> :> "do not ")   @@
    (<<"1", "plu", "present", "neg">> :> "do not ")   @@
    (<<"1", "sng", "perfect", "neg">> :> "did not ")  @@
    (<<"1", "plu", "perfect", "neg">> :> "did not ")  @@
    (<<"3", "sng", "present", "neg">> :> "does not ") @@
    (<<"3", "plu", "present", "neg">> :> "do not ")   @@
    (<<"3", "sng", "perfect", "neg">> :> "did not ")  @@
    (<<"3", "plu", "perfect", "neg">> :> "did not ")

EnglishNounPropertyNames == <<"COUNT">>

EnglishNounSuffixMap == (<<"sng">> :> "") @@ (<<"plu">> :> "s")

JapanesePropertyNames == <<"PERSON", "COUNT", "TENSE">>

JapaneseSuffixMapBadPerfect ==
    (<<"1", "sng", "present">> :> "masu")    @@
    (<<"1", "plu", "present">> :> "masu")    @@
    (<<"1", "sng", "perfect">> :> "mashita") @@
    (<<"1", "plu", "perfect">> :> "mashita") @@
    (<<"3", "sng", "present">> :> "masu")    @@
    (<<"3", "plu", "present">> :> "masu")    @@
    (<<"3", "sng", "perfect">> :> "masu")    @@
    (<<"3", "plu", "perfect">> :> "mashita")

JapaneseSuffixMap ==
    (<<"1", "sng", "present">> :> "masu")    @@
    (<<"1", "plu", "present">> :> "masu")    @@
    (<<"1", "sng", "perfect">> :> "mashita") @@
    (<<"1", "plu", "perfect">> :> "mashita") @@
    (<<"3", "sng", "present">> :> "masu")    @@
    (<<"3", "plu", "present">> :> "masu")    @@
    (<<"3", "sng", "perfect">> :> "mashita") @@
    (<<"3", "plu", "perfect">> :> "mashita")

-----------------------------------------------------------------------------
(* Construction *)

\* Morpher(): the base class has no abstract method, so it can be built
Morpher__init__ == [cls |-> "Morpher"]

\* SuffixMorpher.__init__ stores the two references it is given
SuffixMorpher__init__(property_names, suffix_map) ==
    [cls |-> "SuffixMorpher", property_names |-> property_names,
     suffix_map |-> suffix_map]

\* PrefixMorpher.__init__ stores the two references it is given
PrefixMorpher__init__(property_names, prefix_map) ==
    [cls |-> "PrefixMorpher", property_names |-> property_names,
     prefix_map |-> prefix_map]

EnglishVerbMorpher__init__ ==
    [cls |-> "EnglishVerbMorpher", base_morpher |-> "ev_base",
     negation_morpher |-> "ev_neg"]

EnglishNounMorpher__init__ ==
    [cls |-> "EnglishNounMorpher", base_morpher |-> "en_base"]

JapaneseVerbMorpher__init__ ==
    [cls |-> "JapaneseVerbMorpher", base_morpher |-> "jv_base"]

\* the property-name sequences the program allocates
InitTuples ==
    [t_german  |-> GermanPropertyNames,
     t_ev_base |-> EnglishVerbPropertyNames,
     t_ev_neg  |-> EnglishVerbPropertyNames,
     t_en_base |-> EnglishNounPropertyNames,
     t_jv_base |-> JapanesePropertyNames]

\* the rule-table dicts the program allocates
InitDicts ==
    [d_german  |-> GermanSuffixMap,
     d_ev_base |-> EnglishSuffixMap,
     d_ev_neg  |-> EnglishPrefixMap,
     d_en_base |-> EnglishNounSuffixMap,
     d_jv_base |-> JapaneseSuffixMap]

\* the morpher instances: the docstring's German adjective morpher, the
\* three example morphers with their sub-morphers, and a bare Morpher
InitObjs ==
    [german  |-> SuffixMorpher__init__("t_german", "d_german"),
     ev_base |-> SuffixMorpher__init__("t_ev_base", "d_ev_base"),
     ev_neg  |-> PrefixMorpher__init__("t_ev_neg", "d_ev_neg"),
     ev      |-> EnglishVerbMorpher__init__,
     en_base |-> SuffixMorpher__init__("t_en_base", "d_en_base"),
     en      |-> EnglishNounMorpher__init__,
     jv_base |-> SuffixMorpher__init__("t_jv_base", "d_jv_base"),
     jv      |-> JapaneseVerbMorpher__init__,
     base    |-> Morpher__init__]

\* the instances callers share
Shareable == {"german", "ev", "ev_neg", "en", "jv", "base"}

\* the dicts whose creator is outside the morpher and keeps its reference
CallerOwnedDicts == {"d_german"}

-----------------------------------------------------------------------------
(* The inputs the callers draw from *)

\* the sub-morpher whose rule table decides which bundles an instance knows
RuleMorpher(id) ==
    IF InitObjs[id].cls \in {"EnglishVerbMorpher", "EnglishNounMorpher",
                             "JapaneseVerbMorpher"}
    THEN InitObjs[id].base_morpher ELSE id

Column(d, i) == {k[i] : k \in DOMAIN d}

Restrict(b, S) == [n \in S |-> b[n]]

EmptyBundle == [n \in {} |-> ""]

\* every bundle giving each name a value of its column of the rule table
FullBundles(names, d) ==
    {b \in [Range(names) -> UNION {Column(d, i) : i \in 1..Len(names)}] :
        \A i \in 1..Len(names) : b[names[i]] \in Column(d, i)}

\* the full bundles; one of them with each name dropped in turn, with each
\* value replaced by an unknown one in turn, and with a name nobody reads
\* added; and the empty bundle
BundlesFor(names, d) ==
    LET full == FullBundles(names, d)
        one  == CHOOSE b \in full : TRUE
    IN  full
        \cup {Restrict(one, Range(names) \ {n}) : n \in Range(names)}
        \cup {[one EXCEPT ![n] = UnknownValue] : n \in Range(names)}
        \cup {one @@ (ExtraName :> "x")}
        \cup {EmptyBundle}

Inputs ==
    [id \in Shareable |->
        IF InitObjs[id].cls = "Morpher"
        THEN {EmptyBundle, [COUNT |-> "sng"]}
        ELSE LET m == InitObjs[RuleMorpher(id)]
                 d == IF m.cls = "SuffixMorpher" THEN m.suffix_map
                      ELSE m.prefix_map
             IN  BundlesFor(InitTuples[m.property_names], InitDicts[d])]

-----------------------------------------------------------------------------
(* The expressions of SuffixMorpher.morph and PrefixMorpher.morph *)

\* tuple([properties[p] for p in self.property_names]): the values in the
\* order of the names; the first absent name raises KeyError
RECURSIVE Project(_, _)
Project(properties, names) ==
    IF names = <<>> THEN Ok(<<>>)
    ELSE LET p == Head(names) IN
         IF p \notin DOMAIN properties THEN KeyErrorName(p)
         ELSE LET rest == Project(properties, Tail(names)) IN
              IF rest.tag = "ok" THEN Ok(<<properties[p]>> \o rest.val)
              ELSE rest

GetItemOrEmpty(d, k) == IF k \in DOMAIN d THEN Ok(d[k]) ELSE Ok("")

\* self.suffix_map[value], self.prefix_map[value]: a dict subscript
GetItem(d, k) == IF k \in DOMAIN d THEN Ok(d[k]) ELSE KeyErrorTuple(k)

SetDefault(d, k) == IF k \in DOMAIN d THEN d ELSE d @@ (k :> "")

\* the dict after the subscript: reading a plain dict leaves it as it was
AfterGetItem(d, k) == d

SuffixResultPrepended(word, suffix) == suffix \o word

\* return word + suffix
SuffixResult(word, suffix) == word \o suffix

PrefixResultAppended(word, prefix) == word \o prefix

\* return prefix + word
PrefixResult(word, prefix) == prefix \o word

-----------------------------------------------------------------------------
(* Call stacks *)

\* the first line of morph in each class
Entry(cls) ==
    CASE cls = "Morpher"             -> "L31"
      [] cls = "SuffixMorpher"       -> "L92"
      [] cls = "PrefixMorpher"       -> "L127"
      [] cls = "EnglishVerbMorpher"  -> "L175"
      [] cls = "EnglishNounMorpher"  -> "L186"
      [] cls = "JapaneseVerbMorpher" -> "L202"

\* the frame of a call self.morph(word, properties); the properties
\* argument is a reference to the caller's dict, props[c]
NewFrame(self, word) ==
    [self |-> self, pc |-> Entry(objs[self].cls), word |-> word,
     value |-> <<>>, affix |-> "", suffixed |-> "", negated |-> ""]

Top(c) == Head(stack[c])

At(c, line) ==
    /\ status[c] = "running"
    /\ Top(c).pc = line

NoResult == [tag |-> "unset"]

\* bookkeeping: a line of c's call runs while another caller is inside morph
Observe(c) ==
    overlap' = [overlap EXCEPT ![c] =
                  @ \/ \E d \in Callers \ {c} : status[d] = "running"]

\* the frames left when a callee returns v to the frames stk of its callers
RECURSIVE Unwind(_, _)
Unwind(stk, v) ==
    IF stk = <<>> THEN [stack |-> <<>>, finished |-> TRUE]
    ELSE LET f == Head(stk) IN
         CASE f.pc = "L175" ->
                [stack |-> <<[f EXCEPT !.suffixed = v.val, !.pc = "L176"]>>
                           \o Tail(stk),
                 finished |-> FALSE]
           [] f.pc = "L176" ->
                [stack |-> <<[f EXCEPT !.negated = v.val, !.pc = "L177"]>>
                           \o Tail(stk),
                 finished |-> FALSE]
           [] OTHER -> Unwind(Tail(stk), v)

\* the innermost frame moves on to its next line
Continue(c, f) ==
    /\ stack' = [stack EXCEPT ![c] = <<f>> \o Tail(@)]
    /\ UNCHANGED <<status, result>>

\* the innermost frame calls callee.morph(word, properties)
Invoke(c, callee, word) ==
    /\ stack' = [stack EXCEPT ![c] = <<NewFrame(callee, word)>> \o @]
    /\ log' = [log EXCEPT ![c] =
                 Append(@, [self |-> callee, word |-> word,
                            properties |-> props[c]])]
    /\ UNCHANGED <<status, result>>

\* the innermost frame returns v
Return(c, v) ==
    LET u == Unwind(Tail(stack[c]), v) IN
    /\ stack' = [stack EXCEPT ![c] = u.stack]
    /\ status' = [status EXCEPT ![c] = IF u.finished THEN "done" ELSE @]
    /\ result' = [result EXCEPT ![c] = IF u.finished THEN v ELSE @]

RaiseSwallowed(c, e) ==
    /\ stack' = [stack EXCEPT ![c] = <<>>]
    /\ status' = [status EXCEPT ![c] = "done"]
    /\ result' = [result EXCEPT ![c] = Str(stem[c])]

\* an exception: no frame of the source has a handler, so it leaves morph
Raise(c, e) ==
    /\ stack' = [stack EXCEPT ![c] = <<>>]
    /\ status' = [status EXCEPT ![c] = "done"]
    /\ result' = [result EXCEPT ![c] = e]

-----------------------------------------------------------------------------
(* The program *)

Init ==
    /\ objs = InitObjs
    /\ tuples = InitTuples
    /\ dicts = InitDicts
    /\ shared \in Shareable
    /\ status = [c \in Callers |-> "idle"]
    /\ stem = [c \in Callers |-> ""]
    /\ props = [c \in Callers |-> EmptyBundle]
    /\ props0 = [c \in Callers |-> EmptyBundle]
    /\ stack = [c \in Callers |-> <<>>]
    /\ log = [c \in Callers |-> <<>>]
    /\ result = [c \in Callers |-> NoResult]
    /\ overlap = [c \in Callers |-> FALSE]
    /\ writes = 0

heap == <<objs, tuples, dicts, shared, writes>>

arguments == <<stem, props, props0>>

\* a caller calls shared.morph(word, properties)
Call(c) ==
    /\ status[c] = "idle"
    /\ \E word \in Stems, properties \in Inputs[shared] :
        /\ stem' = [stem EXCEPT ![c] = word]
        /\ props' = [props EXCEPT ![c] = properties]
        /\ props0' = [props0 EXCEPT ![c] = properties]
        /\ stack' = [stack EXCEPT ![c] = <<NewFrame(shared, word)>>]
    /\ status' = [status EXCEPT ![c] = "running"]
    /\ UNCHANGED <<heap, log, result, overlap>>

\* Morpher.morph: the body is a docstring and nothing else
L31(c) ==
    /\ At(c, "L31")
    /\ Observe(c)
    /\ Return(c, None)
    /\ UNCHANGED <<heap, arguments, log>>

\* SuffixMorpher.morph:
\*   value = tuple([properties[p] for p in self.property_names])
L92(c) ==
    /\ At(c, "L92")
    /\ Observe(c)
    /\ LET self == objs[Top(c).self]
           r == Project(props[c], tuples[self.property_names])
       IN  IF r.tag = "ok"
           THEN Continue(c, [Top(c) EXCEPT !.value = r.val, !.pc = "L93"])
           ELSE Raise(c, r)
    /\ UNCHANGED <<heap, arguments, log>>

\*   suffix = self.suffix_map[value]
L93(c) ==
    /\ At(c, "L93")
    /\ Observe(c)
    /\ LET self == objs[Top(c).self]
           r == GetItem(dicts[self.suffix_map], Top(c).value)
       IN  /\ IF r.tag = "ok"
              THEN Continue(c, [Top(c) EXCEPT !.affix = r.val, !.pc = "L94"])
              ELSE Raise(c, r)
           /\ dicts' = [dicts EXCEPT ![self.suffix_map] =
                                        AfterGetItem(@, Top(c).value)]
    /\ UNCHANGED <<objs, tuples, shared, writes, arguments, log>>

\*   return word + suffix
L94(c) ==
    /\ At(c, "L94")
    /\ Observe(c)
    /\ Return(c, Str(SuffixResult(Top(c).word, Top(c).affix)))
    /\ UNCHANGED <<heap, arguments, log>>

\* PrefixMorpher.morph:
\*   value = tuple([properties[p] for p in self.property_names])
L127(c) ==
    /\ At(c, "L127")
    /\ Observe(c)
    /\ LET self == objs[Top(c).self]
           r == Project(props[c], tuples[self.property_names])
       IN  IF r.tag = "ok"
           THEN Continue(c, [Top(c) EXCEPT !.value = r.val, !.pc = "L128"])
           ELSE Raise(c, r)
    /\ UNCHANGED <<heap, arguments, log>>

\*   prefix = self.prefix_map[value]
L128(c) ==
    /\ At(c, "L128")
    /\ Observe(c)
    /\ LET self == objs[Top(c).self]
           r == GetItem(dicts[self.prefix_map], Top(c).value)
       IN  /\ IF r.tag = "ok"
              THEN Continue(c, [Top(c) EXCEPT !.affix = r.val, !.pc = "L129"])
              ELSE Raise(c, r)
           /\ dicts' = [dicts EXCEPT ![self.prefix_map] =
                                        AfterGetItem(@, Top(c).value)]
    /\ UNCHANGED <<objs, tuples, shared, writes, arguments, log>>

\*   return prefix + word
L129(c) ==
    /\ At(c, "L129")
    /\ Observe(c)
    /\ Return(c, Str(PrefixResult(Top(c).word, Top(c).affix)))
    /\ UNCHANGED <<heap, arguments, log>>

NegationArgumentUnsuffixed(f) == f.word

\* the word EnglishVerbMorpher.morph hands to the negation morpher
NegationArgument(f) == f.suffixed

\* EnglishVerbMorpher.morph:
\*   suffixed = self.base_morpher.morph(word, properties)
L175(c) ==
    /\ At(c, "L175")
    /\ Observe(c)
    /\ Invoke(c, objs[Top(c).self].base_morpher, Top(c).word)
    /\ UNCHANGED <<heap, arguments>>

\*   negated = self.negation_morpher.morph(suffixed, properties)
L176(c) ==
    /\ At(c, "L176")
    /\ Observe(c)
    /\ Invoke(c, objs[Top(c).self].negation_morpher, NegationArgument(Top(c)))
    /\ UNCHANGED <<heap, arguments>>

\*   return negated
L177(c) ==
    /\ At(c, "L177")
    /\ Observe(c)
    /\ Return(c, Str(Top(c).negated))
    /\ UNCHANGED <<heap, arguments, log>>

\* EnglishNounMorpher.morph:
\*   return self.base_morpher.morph(word, properties)
L186(c) ==
    /\ At(c, "L186")
    /\ Observe(c)
    /\ Invoke(c, objs[Top(c).self].base_morpher, Top(c).word)
    /\ UNCHANGED <<heap, arguments>>

\* JapaneseVerbMorpher.morph:
\*   return self.base_morpher.morph(word, properties)
L202(c) ==
    /\ At(c, "L202")
    /\ Observe(c)
    /\ Invoke(c, objs[Top(c).self].base_morpher, Top(c).word)
    /\ UNCHANGED <<heap, arguments>>

\* the caller has used the result and forgets the call
Forget(c) ==
    /\ status[c] = "done"
    /\ status' = [status EXCEPT ![c] = "idle"]
    /\ stem' = [stem EXCEPT ![c] = ""]
    /\ props' = [props EXCEPT ![c] = EmptyBundle]
    /\ props0' = [props0 EXCEPT ![c] = EmptyBundle]
    /\ log' = [log EXCEPT ![c] = <<>>]
    /\ result' = [result EXCEPT ![c] = NoResult]
    /\ overlap' = [overlap EXCEPT ![c] = FALSE]
    /\ UNCHANGED <<heap, stack>>

Next ==
    \E c \in Callers :
        \/ Call(c)
        \/ L31(c)
        \/ L92(c)
        \/ L93(c)
        \/ L94(c)
        \/ L127(c)
        \/ L128(c)
        \/ L129(c)
        \/ L175(c)
        \/ L176(c)
        \/ L177(c)
        \/ L186(c)
        \/ L202(c)
        \/ Forget(c)

Spec == Init /\ [][Next]_vars

-----------------------------------------------------------------------------
(* The creator of the docstring's SuffixMorpher keeps the dict it passed   *)
(* as suffix_map, and __init__ stored that very dict                       *)

\* suffix_map[k] = a, by the dict's creator
OwnerSetItem ==
    /\ writes < MaxWrites
    /\ \E d \in CallerOwnedDicts :
        /\ objs[shared].cls = "SuffixMorpher"
        /\ objs[shared].suffix_map = d
        /\ \E k \in DOMAIN dicts[d], a \in WrittenAffixes :
            dicts' = [dicts EXCEPT ![d] = [@ EXCEPT ![k] = a]]
    /\ writes' = writes + 1
    /\ UNCHANGED <<objs, tuples, shared, status, arguments, stack, log, result,
                   overlap>>

\* del suffix_map[k], by the dict's creator
OwnerDelItem ==
    /\ writes < MaxWrites
    /\ \E d \in CallerOwnedDicts :
        /\ objs[shared].cls = "SuffixMorpher"
        /\ objs[shared].suffix_map = d
        /\ \E k \in DOMAIN dicts[d] :
            dicts' = [dicts EXCEPT ![d] = Restrict(@, DOMAIN @ \ {k})]
    /\ writes' = writes + 1
    /\ UNCHANGED <<objs, tuples, shared, status, arguments, stack, log, result,
                   overlap>>

NextAliased ==
    \/ Next
    \/ OwnerSetItem
    \/ OwnerDelItem

SpecAliased == Init /\ [][NextAliased]_vars

-----------------------------------------------------------------------------
(* Vocabulary of the properties *)

Done(c) == status[c] = "done"

\* the bundle has a value for every configured name
Covers(p, names) == Range(names) \subseteq DOMAIN p

\* the values of the bundle in the order of the names
Projection(p, names) == [i \in 1..Len(names) |-> p[names[i]]]

\* the first configured name the bundle has no value for
FirstMissing(p, names) ==
    names[CHOOSE i \in 1..Len(names) :
            /\ names[i] \notin DOMAIN p
            /\ \A j \in 1..(i - 1) : names[j] \in DOMAIN p]

StartsWith(s, t) == Len(s) >= Len(t) /\ SubSeq(s, 1, Len(t)) = t

EndsWith(s, t) ==
    Len(s) >= Len(t) /\ SubSeq(s, Len(s) - Len(t) + 1, Len(s)) = t

\* the exception classes that are LookupError or derive from it
LookupErrorClasses == {"LookupError", "KeyError", "IndexError"}

\* the property names and the rule table of an affix morpher, as they are now
NamesOf(id) == tuples[objs[id].property_names]

TableOf(id) ==
    dicts[IF objs[id].cls = "SuffixMorpher" THEN objs[id].suffix_map
          ELSE objs[id].prefix_map]

\* the bundle selects a rule of the affix morpher
Selects(id, p) ==
    /\ Covers(p, NamesOf(id))
    /\ Projection(p, NamesOf(id)) \in DOMAIN TableOf(id)

\* the affix the bundle selects
Affix(id, p) == TableOf(id)[Projection(p, NamesOf(id))]

\* what a call returns when it runs alone on the heap as first built
AloneAffix(id, word, p) ==
    LET m == InitObjs[id]
        names == InitTuples[m.property_names]
        suffixing == m.cls = "SuffixMorpher"
        table == InitDicts[IF suffixing THEN m.suffix_map ELSE m.prefix_map]
    IN  IF ~Covers(p, names) THEN KeyErrorName(FirstMissing(p, names))
        ELSE IF Projection(p, names) \notin DOMAIN table
             THEN KeyErrorTuple(Projection(p, names))
             ELSE IF suffixing
                  THEN Str(word \o table[Projection(p, names)])
                  ELSE Str(table[Projection(p, names)] \o word)

Alone(id, word, p) ==
    LET m == InitObjs[id] IN
    CASE m.cls = "Morpher" -> None
      [] m.cls \in {"SuffixMorpher", "PrefixMorpher"} -> AloneAffix(id, word, p)
      [] m.cls = "EnglishVerbMorpher" ->
            LET a == AloneAffix(m.base_morpher, word, p) IN
            IF a.tag = "str" THEN AloneAffix(m.negation_morpher, a.val, p)
            ELSE a
      [] OTHER -> AloneAffix(m.base_morpher, word, p)

\* the callers whose EnglishVerbMorpher.morph holds the negation's result
NegatedCallers ==
    {c \in Callers : status[c] = "running" /\ Top(c).pc = "L177"}

-----------------------------------------------------------------------------
(* C1: SuffixMorpher.morph(stem, p), for a bundle p that has every         *)
(* configured name and whose projection is a key of the rule table,        *)
(* returns the stem followed by the affix of that key; the result starts   *)
(* with the stem and is at least as long.  Stated for the shared German    *)
(* morpher, and on the word the English verb's base morpher returned.      *)
C1_SuffixAppends ==
    /\ \A c \in Callers :
        (Done(c) /\ shared = "german" /\ Selects("german", props0[c])) =>
            /\ result[c] = Str(stem[c] \o Affix("german", props0[c]))
            /\ StartsWith(result[c].val, stem[c])
            /\ Len(result[c].val) >= Len(stem[c])
    /\ \A c \in Callers :
        (status[c] = "running" /\ stack[c][Len(stack[c])].pc \in {"L176", "L177"}) =>
            LET f == stack[c][Len(stack[c])] IN
            /\ f.suffixed = f.word \o Affix("ev_base", props0[c])
            /\ StartsWith(f.suffixed, f.word)

C1_Witness ==
    \E c \in Callers :
        /\ Done(c)
        /\ shared = "german"
        /\ stem[c] = "walk"
        /\ props0[c] = ("GENDER" :> "n") @@ ("CASE" :> "acc")
        /\ result[c] = Str("walkes")

(* C2: PrefixMorpher.morph(stem, p), for a bundle p whose projection is a  *)
(* key of the rule table, returns the affix of that key followed by the    *)
(* stem; the result ends with the stem.  Stated for the shared negation   *)
(* morpher, and on the word it returns inside the English verb morpher.    *)
C2_PrefixPrepends ==
    /\ \A c \in Callers :
        (Done(c) /\ shared = "ev_neg" /\ Selects("ev_neg", props0[c])) =>
            /\ result[c] = Str(Affix("ev_neg", props0[c]) \o stem[c])
            /\ EndsWith(result[c].val, stem[c])
    /\ \A c \in NegatedCallers :
            /\ Top(c).negated = Affix("ev_neg", props0[c]) \o Top(c).suffixed
            /\ EndsWith(Top(c).negated, Top(c).suffixed)

C2_Witness ==
    \E c \in Callers :
        /\ Done(c)
        /\ shared = "ev_neg"
        /\ stem[c] = "walk"
        /\ props0[c] = [PERSON |-> "3", COUNT |-> "sng", TENSE |-> "present",
                        POLARITY |-> "neg"]
        /\ result[c] = Str("does not walk")

(* C3: when the bundle lacks a configured property name, or its projection *)
(* is no key of the rule table, SuffixMorpher.morph and PrefixMorpher.morph *)
(* end with a LookupError-class failure and return no string.              *)
C3_LookupFailure ==
    \A c \in Callers :
        (Done(c) /\ shared \in {"german", "ev_neg"} /\ ~Selects(shared, props0[c])) =>
            /\ result[c].tag \in LookupErrorClasses
            /\ result[c].tag # "str"

C3_Witness ==
    \E c, d \in Callers :
        /\ shared \in {"german", "ev_neg"}
        /\ Done(c) /\ ~Covers(props0[c], NamesOf(shared))
        /\ result[c].tag = "KeyError"
        /\ Done(d) /\ Covers(props0[d], NamesOf(shared))
        /\ Projection(props0[d], NamesOf(shared)) \notin DOMAIN TableOf(shared)
        /\ result[d].tag = "KeyError"

-----------------------------------------------------------------------------
EnglishVerbBundles ==
    [PERSON : {"1", "3"}, COUNT : {"sng", "plu"},
     TENSE : {"present", "perfect"}, POLARITY : {"pos", "neg"}]

\* the form the claim gives for each of the 16 bundles
EnglishVerbForm(word, p) ==
    IF p.POLARITY = "pos"
    THEN IF p.TENSE = "perfect" THEN word \o "d"
         ELSE IF p.PERSON = "3" /\ p.COUNT = "sng" THEN word \o "s"
              ELSE word
    ELSE IF p.TENSE = "perfect" THEN "did not " \o word
         ELSE IF p.PERSON = "3" /\ p.COUNT = "sng" THEN "does not " \o word
              ELSE "do not " \o word

(* C4: EnglishVerbMorpher.morph gives, for each of the 16 bundles: stem+s  *)
(* for (3,sng,present,pos), stem+d for perfect pos, the stem for the other *)
(* pos bundles, "does not "+stem for (3,sng,present,neg), "do not "+stem   *)
(* for the other present neg bundles, "did not "+stem for perfect neg.     *)
C4_EnglishVerbForms ==
    \A c \in Callers :
        (Done(c) /\ shared = "ev" /\ props0[c] \in EnglishVerbBundles) =>
            result[c] = Str(EnglishVerbForm(stem[c], props0[c]))

C4_Witness ==
    \E c, d \in Callers :
        /\ shared = "ev"
        /\ Done(c) /\ stem[c] = "walk"
        /\ props0[c] = [PERSON |-> "3", COUNT |-> "sng", TENSE |-> "present",
                        POLARITY |-> "neg"]
        /\ result[c] = Str("does not walk")
        /\ Done(d) /\ stem[d] = "walk"
        /\ props0[d] = [PERSON |-> "3", COUNT |-> "sng", TENSE |-> "perfect",
                        POLARITY |-> "pos"]
        /\ result[d] = Str("walkd")

(* C5: the English verb morpher, a composite of [base_morpher,             *)
(* negation_morpher], returns negation.morph(base.morph(stem, p), p): it   *)
(* calls the suffix morpher on the stem, then the negation morpher on what *)
(* the suffix morpher returned, each with the caller's unmodified bundle.  *)
C5_Composition ==
    \A c \in Callers :
        (Done(c) /\ shared = "ev" /\ result[c].tag = "str") =>
            LET a == stem[c] \o Affix("ev_base", props0[c])
                b == Affix("ev_neg", props0[c]) \o a
            IN  /\ result[c] = Str(b)
                /\ props[c] = props0[c]
                /\ log[c] = << [self |-> "ev_base", word |-> stem[c],
                                properties |-> props0[c]],
                               [self |-> "ev_neg", word |-> a,
                                properties |-> props0[c]] >>

C5_Witness ==
    \E c \in Callers :
        /\ Done(c)
        /\ shared = "ev"
        /\ stem[c] = "walk"
        /\ Len(log[c]) = 2
        /\ log[c][2].word = "walks"
        /\ result[c] = Str("walks")

(* C6: when a sub-morpher of the English verb morpher fails, morph ends    *)
(* with that same failure, the later sub-morpher is not called and no      *)
(* string is returned.                                                     *)
C6_FailFast ==
    \A c \in Callers :
        (Done(c) /\ shared = "ev" /\ ~Selects("ev_base", props0[c])) =>
            /\ result[c] =
                 IF Covers(props0[c], NamesOf("ev_base"))
                 THEN KeyErrorTuple(Projection(props0[c], NamesOf("ev_base")))
                 ELSE KeyErrorName(FirstMissing(props0[c], NamesOf("ev_base")))
            /\ Len(log[c]) = 1
            /\ log[c][1].self = "ev_base"

C6_Witness ==
    \E c, d \in Callers :
        /\ shared = "ev"
        /\ Done(c) /\ result[c] = KeyErrorName("PERSON")
        /\ Len(log[c]) = 1
        /\ Done(d) /\ result[d].tag = "KeyError" /\ result[d].name = ""
        /\ UnknownValue \in Range(result[d].key)
        /\ Len(log[d]) = 1

-----------------------------------------------------------------------------
(* C7: however the lines of concurrent morph calls on the shared instance  *)
(* interleave, each call returns what it returns when run alone on the     *)
(* same (stem, properties); no call changes the property names, the rule   *)
(* tables, the instances or a caller's bundle; and two calls with the same *)
(* (stem, properties) return the same.                                     *)
C7_Interleaving ==
    /\ objs = InitObjs
    /\ tuples = InitTuples
    /\ dicts = InitDicts
    /\ \A c \in Callers :
        /\ props[c] = props0[c]
        /\ Done(c) => result[c] = Alone(shared, stem[c], props0[c])
    /\ \A c, d \in Callers :
        (Done(c) /\ Done(d) /\ stem[c] = stem[d] /\ props0[c] = props0[d]) =>
            result[c] = result[d]

C7_Witness ==
    \E c, d \in Callers :
        /\ c # d
        /\ shared = "ev"
        /\ Done(c) /\ Done(d)
        /\ overlap[c] /\ overlap[d]
        /\ stem[c] = stem[d] /\ props0[c] = props0[d]
        /\ result[c] = Str("does not walk")
        /\ result[d] = Str("does not walk")

JapaneseVerbBundles ==
    [PERSON : {"1", "3"}, COUNT : {"sng", "plu"}, TENSE : {"present", "perfect"}]

(* C8: JapaneseVerbMorpher.morph returns stem+"masu" for a present bundle  *)
(* and stem+"mashita" for a perfect one; bundles that agree on TENSE give  *)
(* the same result whatever their PERSON and COUNT.                        *)
C8_JapaneseVerbForms ==
    /\ \A c \in Callers :
        (Done(c) /\ shared = "jv" /\ props0[c] \in JapaneseVerbBundles) =>
            result[c] = Str(stem[c] \o (IF props0[c].TENSE = "present"
                                        THEN "masu" ELSE "mashita"))
    /\ \A c, d \in Callers :
        (/\ Done(c) /\ Done(d) /\ shared = "jv"
         /\ props0[c] \in JapaneseVerbBundles
         /\ props0[d] \in JapaneseVerbBundles
         /\ stem[c] = stem[d]
         /\ props0[c].TENSE = props0[d].TENSE) => result[c] = result[d]

C8_Witness ==
    \E c, d \in Callers :
        /\ shared = "jv"
        /\ Done(c) /\ Done(d)
        /\ stem[c] = "walk" /\ stem[d] = "walk"
        /\ props0[c] = [PERSON |-> "3", COUNT |-> "sng", TENSE |-> "perfect"]
        /\ props0[d] = [PERSON |-> "1", COUNT |-> "plu", TENSE |-> "perfect"]
        /\ result[c] = Str("walkmashita")
        /\ result[d] = Str("walkmashita")

(* C9: once a SuffixMorpher or PrefixMorpher is built, nothing that        *)
(* happens later, a write by the caller to the dict it passed to the       *)
(* constructor included, changes what morph returns for a (stem,           *)
(* properties): it is what the morpher as built returns.                   *)
C9_ResultFixedAtConstruction ==
    \A c \in Callers :
        (Done(c) /\ shared \in {"german", "ev_neg"}) =>
            result[c] = AloneAffix(shared, stem[c], props0[c])

(* C10: a morph call on any Morpher instance, one of the base class        *)
(* included, returns a string or fails with an error; it never ends        *)
(* normally with a value that is no string.                                *)
C10_StringOrError ==
    \A c \in Callers :
        Done(c) => result[c].tag \in {"str"} \cup LookupErrorClasses

====
